---- MODULE Spec2Model ----
(***************************************************************************)
(* Model of scripts/publish.py: the manifest schema validator, the content *)
(* validators, the archive auditor, version comparison, and the publish    *)
(* orchestrator with its registry and artifact store.                      *)
(*                                                                         *)
(* Python strings are sequences of one-character strings, so that regular  *)
(* expressions, str.lower, str.split, int() and string ordering are        *)
(* computed character by character as the code computes them.              *)
(***************************************************************************)
EXTENDS Integers, Sequences, FiniteSets, TLC

VARIABLES
  registry,   \* registry.json: [exists, version, last_updated, extensions]
  store,      \* extensions/: a function from file names to file bytes
  clock,      \* the UTC clock read by get_utc_timestamp
  scripts,    \* the commit message written into scripts/commit-and-push.*
  last,       \* the last publish attempt: its inputs and its return value
  arg,        \* input of the pure function under check
  ret,        \* its result
  phase       \* "in" before the function is applied, "out" after

vars == <<registry, store, clock, scripts, last, arg, ret, phase>>

(***************************************************************************)
(* Characters and strings                                                  *)
(***************************************************************************)
NL == "\n"

LowerSeq == <<"a", "b", "c", "d", "e", "f", "g", "h", "i", "j", "k", "l", "m",
              "n", "o", "p", "q", "r", "s", "t", "u", "v", "w", "x", "y", "z">>
UpperSeq == <<"A", "B", "C", "D", "E", "F", "G", "H", "I", "J", "K", "L", "M",
              "N", "O", "P", "Q", "R", "S", "T", "U", "V", "W", "X", "Y", "Z">>
DigitSeq == <<"0", "1", "2", "3", "4", "5", "6", "7", "8", "9">>

\* [a-z], [A-Z] and the decimal digits
LowerChars == {LowerSeq[i] : i \in 1..Len(LowerSeq)}
UpperChars == {UpperSeq[i] : i \in 1..Len(UpperSeq)}
DigitChars == {DigitSeq[i] : i \in 1..Len(DigitSeq)}

IndexIn(seq, c) == CHOOSE i \in 1..Len(seq) : seq[i] = c

\* str.lower on one character
LowerChar(c) == IF c \in UpperChars THEN LowerSeq[IndexIn(UpperSeq, c)] ELSE c

\* str.lower
Lower(s) == [i \in 1..Len(s) |-> LowerChar(s[i])]

\* ord(c) for the characters the model uses
Ord(c) ==
  IF c \in LowerChars THEN 96 + IndexIn(LowerSeq, c)
  ELSE IF c \in UpperChars THEN 64 + IndexIn(UpperSeq, c)
  ELSE IF c \in DigitChars THEN 47 + IndexIn(DigitSeq, c)
  ELSE CASE c = NL -> 10 [] c = " " -> 32 [] c = "!" -> 33 [] c = "#" -> 35
         [] c = "-" -> 45 [] c = "." -> 46 [] c = "/" -> 47 [] c = ":" -> 58
         [] c = "=" -> 61 [] c = "_" -> 95

\* Python's < on str: lexicographic by code point, a proper prefix first
RECURSIVE StrLess(_, _)
StrLess(s, t) ==
  IF t = <<>> THEN FALSE
  ELSE IF s = <<>> THEN TRUE
  ELSE IF Ord(Head(s)) < Ord(Head(t)) THEN TRUE
  ELSE IF Ord(Head(s)) > Ord(Head(t)) THEN FALSE
  ELSE StrLess(Tail(s), Tail(t))

\* str.endswith
EndsWith(s, suf) ==
  /\ Len(s) >= Len(suf)
  /\ SubSeq(s, Len(s) - Len(suf) + 1, Len(s)) = suf

\* str.startswith
StartsWith(s, pre) ==
  /\ Len(s) >= Len(pre)
  /\ SubSeq(s, 1, Len(pre)) = pre

\* c in s
Contains(s, c) == \E i \in 1..Len(s) : s[i] = c

\* s.find(c, i): the first index at or after i that holds c, or 0
RECURSIVE Find(_, _, _)
Find(s, c, i) ==
  IF i > Len(s) THEN 0 ELSE IF s[i] = c THEN i ELSE Find(s, c, i + 1)

\* s.rfind(c): the last index at or before i that holds c, or 0
RECURSIVE RFind(_, _, _)
RFind(s, c, i) ==
  IF i < 1 THEN 0 ELSE IF s[i] = c THEN i ELSE RFind(s, c, i - 1)

\* str.split(sep) for a one-character separator
RECURSIVE Split(_, _)
Split(s, sep) ==
  LET k == Find(s, sep, 1)
  IN IF k = 0 THEN <<s>>
     ELSE <<SubSeq(s, 1, k - 1)>> \o Split(SubSeq(s, k + 1, Len(s)), sep)

\* The end of a match at a pattern's '$': Python's '$' matches at the end of
\* the string and also just before a newline that ends the string.
AtDollar(rest) == rest = <<>> \/ rest = <<NL>>

(***************************************************************************)
(* compare_versions                                                        *)
(***************************************************************************)
DigitVal(c) == IndexIn(DigitSeq, c) - 1

\* int(x) of a string of decimal digits, read from the left: acc is the
\* value of the digits before index i
RECURSIVE ParseIntFrom(_, _, _)
ParseIntFrom(s, i, acc) ==
  IF i > Len(s) THEN acc ELSE ParseIntFrom(s, i + 1, 10 * acc + DigitVal(s[i]))
ParseInt(s) == ParseIntFrom(s, 1, 0)

\* [int(x) for x in parts]
RECURSIVE ParseInts(_)
ParseInts(parts) ==
  IF parts = <<>> THEN <<>> ELSE <<ParseInt(Head(parts))>> \o ParseInts(Tail(parts))

\* The mutant: the components compared as strings instead of as integers.
RECURSIVE ZipCompareStr(_, _)
ZipCompareStr(p1, p2) ==
  IF p1 = <<>> \/ p2 = <<>> THEN 0
  ELSE IF StrLess(Head(p1), Head(p2)) THEN -1
  ELSE IF StrLess(Head(p2), Head(p1)) THEN 1
  ELSE ZipCompareStr(Tail(p1), Tail(p2))

compare_versions_lexical(v1, v2) == ZipCompareStr(Split(v1, "."), Split(v2, "."))

\* for p1, p2 in zip(parts1, parts2): the first differing pair decides
RECURSIVE ZipCompare(_, _)
ZipCompare(p1, p2) ==
  IF p1 = <<>> \/ p2 = <<>> THEN 0
  ELSE IF Head(p1) < Head(p2) THEN -1
  ELSE IF Head(p1) > Head(p2) THEN 1
  ELSE ZipCompare(Tail(p1), Tail(p2))

compare_versions(v1, v2) ==
  ZipCompare(ParseInts(Split(v1, ".")), ParseInts(Split(v2, ".")))

\* str(n) for n >= 0, the decimal text a version component is written as
RECURSIVE IntToStr(_)
IntToStr(n) ==
  IF n < 10 THEN <<DigitSeq[n + 1]>>
  ELSE IntToStr(n \div 10) \o <<DigitSeq[(n % 10) + 1]>>

\* "X.Y.Z" for a triple of non-negative integers
VersionText(t) ==
  IntToStr(t[1]) \o <<".">> \o IntToStr(t[2]) \o <<".">> \o IntToStr(t[3])

MaxPart == 2
\* component values: the small ones and a two-digit one
Parts == (0..MaxPart) \cup {10}
Triples == Parts \X Parts \X Parts

\* the dummy values of the variables a specification does not use
NoRegistry == [exists |-> FALSE, version |-> "1.0", last_updated |-> 0,
               extensions |-> <<>>]
NoStore == <<>>
NoAttempt == [archive |-> 0, notice |-> "none", asked |-> {}, result |-> FALSE]
Idle ==
  /\ registry = NoRegistry
  /\ store = NoStore
  /\ clock = 0
  /\ scripts = <<>>
  /\ last = NoAttempt
IdleStep == UNCHANGED <<registry, store, clock, scripts, last>>

InitCmp ==
  /\ Idle
  /\ phase = "in"
  /\ arg \in [t1 : Triples, t2 : Triples]
  /\ ret = 0

Compare ==
  /\ phase = "in"
  /\ phase' = "out"
  /\ ret' = compare_versions(VersionText(arg.t1), VersionText(arg.t2))
  /\ UNCHANGED arg
  /\ IdleStep

SpecCmp == InitCmp /\ [][Compare]_vars

\* componentwise integer comparison, left to right
TripleOrder(a, b) ==
  IF a[1] # b[1] THEN (IF a[1] < b[1] THEN -1 ELSE 1)
  ELSE IF a[2] # b[2] THEN (IF a[2] < b[2] THEN -1 ELSE 1)
  ELSE IF a[3] # b[3] THEN (IF a[3] < b[3] THEN -1 ELSE 1)
  ELSE 0

\* C4: compare_versions on X.Y.Z texts returns -1, 0 or 1 as the integer
\* triples compare left to right; it is 0 exactly for equal triples, it is
\* antisymmetric and transitive, and compare("1.2.0", "1.10.0") is negative.
C4_CompareIsNumericOrder ==
  phase = "out" =>
    LET v1 == VersionText(arg.t1)
        v2 == VersionText(arg.t2)
    IN /\ ret \in {-1, 0, 1}
       /\ ret = TripleOrder(arg.t1, arg.t2)
       /\ (ret = 0 <=> arg.t1 = arg.t2)
       /\ compare_versions(v2, v1) = 0 - ret
       /\ \A t3 \in Triples :
            (ret <= 0 /\ compare_versions(v2, VersionText(t3)) <= 0)
              => compare_versions(v1, VersionText(t3)) <= 0
       /\ compare_versions(<<"1", ".", "2", ".", "0">>,
                           <<"1", ".", "1", "0", ".", "0">>) < 0

C4_Witness ==
  /\ phase = "out"
  /\ arg.t1 = <<1, 2, 0>>
  /\ arg.t2 = <<1, 10, 0>>
  /\ ret = -1

(***************************************************************************)
(* Parsed JSON values: one record shape for every kind of value.           *)
(*   t = "str": s is the text; t = "num"; t = "list": items;                *)
(*   t = "obj": keys (distinct, in document order) and items, in parallel. *)
(***************************************************************************)
JStr(x) == [t |-> "str", s |-> x, keys |-> <<>>, items |-> <<>>]
JNum == [t |-> "num", s |-> <<>>, keys |-> <<>>, items |-> <<>>]
JList(xs) == [t |-> "list", s |-> <<>>, keys |-> <<>>, items |-> xs]
JObj(ks, xs) == [t |-> "obj", s |-> <<>>, keys |-> ks, items |-> xs]

IsStr(v) == v.t = "str"
IsList(v) == v.t = "list"
IsDict(v) == v.t = "obj"

\* key in data
HasKey(v, k) == \E i \in 1..Len(v.keys) : v.keys[i] = k
\* data[key]
Get(v, k) == v.items[CHOOSE i \in 1..Len(v.keys) : v.keys[i] = k]

\* str.isdigit: non-empty and every character a decimal digit
IsDigitStr(s) == s # <<>> /\ \A i \in 1..Len(s) : s[i] \in DigitChars

\* all(isinstance(x, str) for x in v)
AllStr(xs) == \A i \in 1..Len(xs) : IsStr(xs[i])

Ok == [ok |-> TRUE, error |-> "", key |-> <<>>, lang |-> <<>>]
Fail(e, k, l) == [ok |-> FALSE, error |-> e, key |-> k, lang |-> l]

(***************************************************************************)
(* validate_mapping_file                                                   *)
(***************************************************************************)
\* a language object's entry: names must be a list of strings
BadNames(names) == ~IsList(names) \/ ~AllStr(names.items)

\* an item of a book list that makes the inner loop return False
BadItem(item) ==
  IF IsDict(item) THEN \E j \in 1..Len(item.items) : BadNames(item.items[j])
  ELSE TRUE

\* the result of the loop body for one (book_num, book_data); Ok is "goes on"
validate_book(book_num, book_data) ==
  IF IsList(book_data) THEN
    IF ~AllStr(book_data.items) THEN
      IF \E i \in 1..Len(book_data.items) : BadItem(book_data.items[i]) THEN
        LET i == CHOOSE i \in 1..Len(book_data.items) :
                   /\ BadItem(book_data.items[i])
                   /\ \A h \in 1..(i - 1) : ~BadItem(book_data.items[h])
            item == book_data.items[i]
        IN IF IsDict(item) THEN
             LET j == CHOOSE j \in 1..Len(item.items) :
                        /\ BadNames(item.items[j])
                        /\ \A h \in 1..(j - 1) : ~BadNames(item.items[h])
             IN Fail("Must be list of strings", book_num, item.keys[j])
           ELSE Fail("All items must be strings or language objects", book_num, <<>>)
      ELSE Ok
    ELSE Ok
  ELSE Fail("Invalid structure", book_num, <<>>)

validate_mapping_file(data) ==
  IF ~IsDict(data) THEN Fail("Mapping must be a JSON object", <<>>, <<>>)
  ELSE IF \E i \in 1..Len(data.keys) : ~IsDigitStr(data.keys[i]) THEN
    LET i == CHOOSE i \in 1..Len(data.keys) :
               /\ ~IsDigitStr(data.keys[i])
               /\ \A h \in 1..(i - 1) : IsDigitStr(data.keys[h])
    IN Fail("Invalid book number key", data.keys[i], <<>>)
  ELSE IF \E i \in 1..Len(data.keys) : ~validate_book(data.keys[i], data.items[i]).ok THEN
    LET i == CHOOSE i \in 1..Len(data.keys) :
               /\ ~validate_book(data.keys[i], data.items[i]).ok
               /\ \A h \in 1..(i - 1) : validate_book(data.keys[h], data.items[h]).ok
    IN validate_book(data.keys[i], data.items[i])
  ELSE Ok

(***************************************************************************)
(* validate_theme_file                                                     *)
(***************************************************************************)
K_lookAndFeelClassName == <<"l", "o", "o", "k", "A", "n", "d", "F", "e", "e", "l", "C", "l", "a", "s", "s", "N", "a", "m", "e">>
K_formatString == <<"f", "o", "r", "m", "a", "t", "S", "t", "r", "i", "n", "g">>
K_styles == <<"s", "t", "y", "l", "e", "s">>
K_textAreaBackground == <<"t", "e", "x", "t", "A", "r", "e", "a", "B", "a", "c", "k", "g", "r", "o", "u", "n", "d">>
K_fontName == <<"f", "o", "n", "t", "N", "a", "m", "e">>
K_fontStyle == <<"f", "o", "n", "t", "S", "t", "y", "l", "e">>
K_fontSize == <<"f", "o", "n", "t", "S", "i", "z", "e">>
K_color == <<"c", "o", "l", "o", "r">>

REQUIRED_THEME_KEYS ==
  <<K_lookAndFeelClassName, K_formatString, K_styles, K_textAreaBackground>>
REQUIRED_STYLE_KEYS == <<K_fontName, K_fontStyle, K_fontSize, K_color>>

\* the first key of a required list that the object lacks, or 0
FirstMissing(required, v) ==
  IF \A i \in 1..Len(required) : HasKey(v, required[i]) THEN 0
  ELSE CHOOSE i \in 1..Len(required) :
         /\ ~HasKey(v, required[i])
         /\ \A h \in 1..(i - 1) : HasKey(v, required[h])

BadStyle(style_data) ==
  ~IsDict(style_data) \/ FirstMissing(REQUIRED_STYLE_KEYS, style_data) # 0

validate_theme_file(data) ==
  IF ~IsDict(data) THEN Fail("Theme must be a JSON object", <<>>, <<>>)
  ELSE IF FirstMissing(REQUIRED_THEME_KEYS, data) # 0 THEN
    Fail("Missing required key", REQUIRED_THEME_KEYS[FirstMissing(REQUIRED_THEME_KEYS, data)], <<>>)
  ELSE IF ~IsDict(Get(data, K_styles)) THEN Fail("'styles' must be an object", <<>>, <<>>)
  ELSE
    LET styles == Get(data, K_styles)
    IN IF \E i \in 1..Len(styles.keys) : BadStyle(styles.items[i]) THEN
         LET i == CHOOSE i \in 1..Len(styles.keys) :
                    /\ BadStyle(styles.items[i])
                    /\ \A h \in 1..(i - 1) : ~BadStyle(styles.items[h])
         IN IF ~IsDict(styles.items[i])
            THEN Fail("Style must be an object", styles.keys[i], <<>>)
            ELSE Fail("Style missing required key", styles.keys[i],
                      REQUIRED_STYLE_KEYS[FirstMissing(REQUIRED_STYLE_KEYS, styles.items[i])])
       ELSE Ok

(***************************************************************************)
(* validate_properties_file, on the decoded text split into lines          *)
(***************************************************************************)
\* str.strip for the blanks the model uses
RECURSIVE LStrip(_)
LStrip(s) == IF s # <<>> /\ Head(s) = " " THEN LStrip(Tail(s)) ELSE s
RECURSIVE RStrip(_)
RStrip(s) ==
  IF s # <<>> /\ s[Len(s)] = " " THEN RStrip(SubSeq(s, 1, Len(s) - 1)) ELSE s
Strip(s) == RStrip(LStrip(s))

BadPropertiesLine(raw) ==
  LET line == Strip(raw)
  IN /\ ~(line = <<>> \/ StartsWith(line, <<"#">>) \/ StartsWith(line, <<"!">>))
     /\ ~Contains(line, "=")
     /\ ~Contains(line, ":")

\* [ok, line]: line is the 1-based number of the first offending line
validate_properties_file(lines) ==
  IF \E i \in 1..Len(lines) : BadPropertiesLine(lines[i]) THEN
    [ok |-> FALSE,
     line |-> CHOOSE i \in 1..Len(lines) :
                /\ BadPropertiesLine(lines[i])
                /\ \A h \in 1..(i - 1) : ~BadPropertiesLine(lines[h])]
  ELSE [ok |-> TRUE, line |-> 0]

(***************************************************************************)
(* The mapping validator applied to bounded parsed values                  *)
(***************************************************************************)
MaxItems == 2
MaxBooks == 2

S_Gen == <<"G", "e", "n">>
S_Genesis == <<"G", "e", "n", "e", "s", "i", "s">>
S_en == <<"e", "n">>

\* sequences over S of length at most n
SeqsUpTo(S, n) == UNION {[1..k -> S] : k \in 0..n}

\* language objects: a well-formed one, one whose value is no list, one whose
\* list holds a number
LangObjects ==
  {JObj(<<S_en>>, <<JList(<<JStr(S_Gen)>>)>>),
   JObj(<<S_en>>, <<JStr(S_Gen)>>),
   JObj(<<S_en>>, <<JList(<<JStr(S_Gen), JNum>>)>>)}
BookItems == {JStr(S_Genesis), JNum} \cup LangObjects
BookValues ==
  {JList(xs) : xs \in SeqsUpTo(BookItems, MaxItems)} \cup {JStr(S_Genesis), JNum}
BookKeys == {<<"1">>, <<"4", "0">>, <<"x">>}
\* key sequences without a repeated key, as a parsed JSON object has them
KeySeqs == {ks \in SeqsUpTo(BookKeys, MaxBooks) :
              \A i, j \in 1..Len(ks) : i # j => ks[i] # ks[j]}
MappingInputs ==
  {JObj(ks, xs) : <<ks, xs>> \in
     {p \in KeySeqs \X SeqsUpTo(BookValues, MaxBooks) : Len(p[1]) = Len(p[2])}}
  \cup {JList(<<>>), JStr(S_Gen)}

InitMapping ==
  /\ Idle
  /\ phase = "in"
  /\ arg \in MappingInputs
  /\ ret = Ok

ValidateMapping ==
  /\ phase = "in"
  /\ phase' = "out"
  /\ ret' = validate_mapping_file(arg)
  /\ UNCHANGED arg
  /\ IdleStep

SpecMapping == InitMapping /\ [][ValidateMapping]_vars

\* the documented shape of a book value: every item a plain string or a
\* language object whose values are all lists of strings
DocumentedItem(item) ==
  \/ IsStr(item)
  \/ /\ IsDict(item)
     /\ \A j \in 1..Len(item.items) :
          IsList(item.items[j]) /\ AllStr(item.items[j].items)
DocumentedBook(v) ==
  IsList(v) /\ \A i \in 1..Len(v.items) : DocumentedItem(v.items[i])
DocumentedMapping(data) ==
  /\ IsDict(data)
  /\ \A i \in 1..Len(data.keys) : IsDigitStr(data.keys[i])
  /\ \A i \in 1..Len(data.items) : DocumentedBook(data.items[i])

\* C8: the mapping validator accepts exactly the objects with numeric keys
\* whose values are lists of plain strings, alone or mixed with language
\* objects mapping to lists of strings; a rejected book value is named.
C8_MappingAcceptsDocumentedShape ==
  phase = "out" =>
    /\ ret.ok <=> DocumentedMapping(arg)
    /\ (~ret.ok /\ IsDict(arg) /\ \A i \in 1..Len(arg.keys) : IsDigitStr(arg.keys[i]))
         => \E i \in 1..Len(arg.keys) : ret.key = arg.keys[i]

(***************************************************************************)
(* validate_manifest                                                       *)
(*                                                                         *)
(* A manifest: fields is the set of keys present; type is its 'type';      *)
(* version its 'version'; files is [isdict, keys, vals], the categories in *)
(* document order with the list each maps to; languages and lang_codes are *)
(* [islist, items].                                                        *)
(***************************************************************************)
EXTENSION_TYPES == <<"theme", "mapping", "localization", "bundle">>

\* The mutant: the table with 'themes' also allowed in a mapping extension.
ALLOWED_FILE_TYPES_typo(ext_type) ==
  CASE ext_type = "theme" -> <<"themes">>
    [] ext_type = "mapping" -> <<"mappings", "themes">>
    [] ext_type = "localization" -> <<"resources">>
    [] ext_type = "bundle" -> <<"mappings", "resources", "themes">>

ALLOWED_FILE_TYPES(ext_type) ==
  CASE ext_type = "theme" -> <<"themes">>
    [] ext_type = "mapping" -> <<"mappings">>
    [] ext_type = "localization" -> <<"resources">>
    [] ext_type = "bundle" -> <<"mappings", "resources", "themes">>

InSeq(x, seq) == \E i \in 1..Len(seq) : seq[i] = x

AllLower(s) == \A i \in 1..Len(s) : s[i] \in LowerChars
AllUpper(s) == \A i \in 1..Len(s) : s[i] \in UpperChars

\* re.match(r'^[a-z]{2,3}(-[A-Z]{2})?(-[a-z]+)?$', code)
MatchLangCode(code) ==
  \E n \in {2, 3} :
    /\ Len(code) >= n
    /\ AllLower(SubSeq(code, 1, n))
    /\ \E r \in {0, 3} :
         /\ Len(code) >= n + r
         /\ r = 3 => /\ code[n + 1] = "-"
                     /\ AllUpper(SubSeq(code, n + 2, n + 3))
         /\ LET rest == SubSeq(code, n + r + 1, Len(code))
            IN \/ AtDollar(rest)
               \/ /\ Len(rest) >= 2
                  /\ rest[1] = "-"
                  /\ \E k \in 2..Len(rest) :
                       /\ AllLower(SubSeq(rest, 2, k))
                       /\ AtDollar(SubSeq(rest, k + 1, Len(rest)))

\* re.match(r'^\d+\.\d+\.\d+$', version)
MatchVersion(version) ==
  \E k \in (Len(version) - 1)..Len(version) :
    /\ k >= 0
    /\ AtDollar(SubSeq(version, k + 1, Len(version)))
    /\ LET parts == Split(SubSeq(version, 1, k), ".")
       IN Len(parts) = 3 /\ \A i \in 1..3 : IsDigitStr(parts[i])

MOk == [ok |-> TRUE, error |-> "", detail |-> ""]
MFail(e, d) == [ok |-> FALSE, error |-> e, detail |-> d]

required_fields == <<"name", "version", "type", "description", "author", "files">>

\* for field in required_fields: if field not in manifest
check_required(manifest) ==
  IF \A i \in 1..Len(required_fields) : required_fields[i] \in manifest.fields
  THEN MOk
  ELSE MFail("Missing required field",
             required_fields[CHOOSE i \in 1..Len(required_fields) :
                /\ required_fields[i] \notin manifest.fields
                /\ \A h \in 1..(i - 1) : required_fields[h] \in manifest.fields])

check_type(manifest) ==
  IF InSeq(manifest.type, EXTENSION_TYPES) THEN MOk
  ELSE MFail("Invalid type", manifest.type)

check_files_object(manifest) ==
  IF manifest.files.isdict THEN MOk ELSE MFail("'files' must be an object", "")

\* if 'languages' in manifest or 'lang_codes' in manifest: the five rules
language_block(manifest) ==
  IF "languages" \in manifest.fields \/ "lang_codes" \in manifest.fields THEN
    IF "languages" \notin manifest.fields \/ "lang_codes" \notin manifest.fields
    THEN MFail("Both 'languages' and 'lang_codes' must be provided together", "")
    ELSE IF ~manifest.languages.islist \/ ~manifest.lang_codes.islist
    THEN MFail("'languages' and 'lang_codes' must be arrays", "")
    ELSE IF Len(manifest.languages.items) # Len(manifest.lang_codes.items)
    THEN MFail("'languages' and 'lang_codes' must have the same length", "")
    ELSE IF Len(manifest.lang_codes.items) = 0
    THEN MFail("'lang_codes' cannot be empty", "")
    ELSE IF \E i \in 1..Len(manifest.lang_codes.items) :
              ~MatchLangCode(manifest.lang_codes.items[i])
    THEN MFail("Invalid BCP47 language code", "")
    ELSE MOk
  ELSE MOk

\* if ext_type in ['localization', 'mapping', 'bundle']: the language block
check_language(manifest) ==
  IF manifest.type \in {"localization", "mapping", "bundle"}
  THEN language_block(manifest)
  ELSE MOk

\* [key for key, value in manifest['files'].items() if value]
declared_types(manifest) ==
  LET f == manifest.files
      RECURSIVE Pick(_)
      Pick(i) == IF i > Len(f.keys) THEN <<>>
                 ELSE (IF f.vals[i] # <<>> THEN <<f.keys[i]>> ELSE <<>>) \o Pick(i + 1)
  IN Pick(1)

check_allowed(manifest) ==
  LET allowed_types == ALLOWED_FILE_TYPES(manifest.type)
      declared == declared_types(manifest)
  IN IF \A i \in 1..Len(declared) : InSeq(declared[i], allowed_types) THEN MOk
     ELSE MFail("cannot contain files of this category",
                declared[CHOOSE i \in 1..Len(declared) :
                   /\ ~InSeq(declared[i], allowed_types)
                   /\ \A h \in 1..(i - 1) : InSeq(declared[h], allowed_types)])

\* manifest['files'].get(allowed_type) is truthy for some allowed type
check_has_required_files(manifest) ==
  LET allowed_types == ALLOWED_FILE_TYPES(manifest.type)
      f == manifest.files
  IN IF \E a \in 1..Len(allowed_types) :
          \E i \in 1..Len(f.keys) : f.keys[i] = allowed_types[a] /\ f.vals[i] # <<>>
     THEN MOk
     ELSE MFail("must declare at least one file", "")

check_version(manifest) ==
  IF MatchVersion(manifest.version) THEN MOk
  ELSE MFail("Invalid version format", "")

\* the checks in the order of the code; the first failure is returned
validate_manifest(manifest) ==
  IF ~check_required(manifest).ok THEN check_required(manifest)
  ELSE IF ~check_type(manifest).ok THEN check_type(manifest)
  ELSE IF ~check_files_object(manifest).ok THEN check_files_object(manifest)
  ELSE IF ~check_language(manifest).ok THEN check_language(manifest)
  ELSE IF ~check_allowed(manifest).ok THEN check_allowed(manifest)
  ELSE IF ~check_has_required_files(manifest).ok THEN check_has_required_files(manifest)
  ELSE check_version(manifest)

(***************************************************************************)
(* The schema validator applied to bounded manifests                       *)
(***************************************************************************)
MaxLangs == 2

S_zh_CN_hans == <<"z", "h", "-", "C", "N", "-", "h", "a", "n", "s">>
S_EN == <<"E", "N">>
S_en_NL == <<"e", "n", NL>>
S_English == <<"E", "n", "g", "l", "i", "s", "h">>
S_1_0_0 == <<"1", ".", "0", ".", "0">>
S_1_0 == <<"1", ".", "0">>
S_kjv == <<"k", "j", "v">>
S_kjv_json == <<"k", "j", "v", ".", "j", "s", "o", "n">>

LangCodes == {S_en, S_zh_CN_hans, S_EN, S_en_NL}
NotAList == [islist |-> FALSE, items |-> <<>>]
AList(xs) == [islist |-> TRUE, items |-> xs]

RequiredSet == {required_fields[i] : i \in 1..Len(required_fields)}

\* languages and lang_codes: each absent, not a list, or a list
LanguageVariants ==
  {[present |-> FALSE, v |-> NotAList], [present |-> TRUE, v |-> NotAList]}
  \cup {[present |-> TRUE, v |-> AList(xs)] : xs \in SeqsUpTo({S_English}, MaxLangs)}
LangCodeVariants ==
  {[present |-> FALSE, v |-> NotAList], [present |-> TRUE, v |-> NotAList]}
  \cup {[present |-> TRUE, v |-> AList(xs)] : xs \in SeqsUpTo(LangCodes, MaxLangs)}

CategoryOrder == <<"themes", "mappings", "resources", "plugins">>
\* a files object from a choice, per category, of absent / empty / one file
FilesOf(c) ==
  LET RECURSIVE Keys(_)
      Keys(i) == IF i > Len(CategoryOrder) THEN <<>>
                 ELSE (IF c[CategoryOrder[i]] = "absent" THEN <<>>
                       ELSE <<CategoryOrder[i]>>) \o Keys(i + 1)
      ks == Keys(1)
  IN [isdict |-> TRUE, keys |-> ks,
      vals |-> [i \in 1..Len(ks) |->
                  IF c[ks[i]] = "empty" THEN <<>> ELSE <<S_kjv_json>>]]
FilesVariants ==
  {FilesOf(c) : c \in [{CategoryOrder[i] : i \in 1..Len(CategoryOrder)}
                        -> {"absent", "empty", "one"}]}
\* for each type, a files object that the type allows
FilesFor(ext_type) ==
  [isdict |-> TRUE, keys |-> <<ALLOWED_FILE_TYPES(ext_type)[1]>>,
   vals |-> <<<<S_kjv_json>>>>]

Manifest(fs, ty, ver, files, langs, codes) ==
  [fields |-> fs \cup (IF langs.present THEN {"languages"} ELSE {})
                 \cup (IF codes.present THEN {"lang_codes"} ELSE {}),
   name |-> S_kjv, type |-> ty, version |-> ver, files |-> files,
   languages |-> langs.v, lang_codes |-> codes.v]

NoLangs == [present |-> FALSE, v |-> NotAList]
BaseManifest == Manifest(RequiredSet, "theme", S_1_0_0, FilesFor("theme"), NoLangs, NoLangs)

\* manifests that fail a check other than those under study
OddManifests ==
  {[BaseManifest EXCEPT !.fields = RequiredSet \ {f}] : f \in RequiredSet}
  \cup {[BaseManifest EXCEPT !.type = "plugin"],
        [BaseManifest EXCEPT !.files = [isdict |-> FALSE, keys |-> <<>>, vals |-> <<>>]],
        [BaseManifest EXCEPT !.version = S_1_0],
        [BaseManifest EXCEPT !.version = S_1_0_0 \o <<NL>>]}

TypeSet == {EXTENSION_TYPES[i] : i \in 1..Len(EXTENSION_TYPES)}

LanguageInputs ==
  {Manifest(RequiredSet, ty, S_1_0_0, f, l, c) :
     <<ty, f, l, c>> \in
       {q \in TypeSet \X FilesVariants \X LanguageVariants \X LangCodeVariants :
          q[2] \in {FilesFor(q[1]), FilesOf([x \in {"themes", "mappings", "resources", "plugins"}
                                               |-> IF x = "plugins" THEN "one" ELSE "absent"])}}}
  \cup OddManifests

CategoryInputs ==
  {Manifest(RequiredSet, ty, S_1_0_0, f, l, c) :
     <<ty, f, l, c>> \in
       {q \in TypeSet \X FilesVariants \X LanguageVariants \X LangCodeVariants :
          /\ q[3].present = q[4].present
          /\ q[3].v \in {NotAList, AList(<<S_English>>)}
          /\ q[4].v \in {NotAList, AList(<<S_en>>), AList(<<S_EN>>)}}}
  \cup OddManifests

InitLanguage ==
  /\ Idle
  /\ phase = "in"
  /\ arg \in LanguageInputs
  /\ ret = MOk

InitCategories ==
  /\ Idle
  /\ phase = "in"
  /\ arg \in CategoryInputs
  /\ ret = MOk

ValidateManifest ==
  /\ phase = "in"
  /\ phase' = "out"
  /\ ret' = validate_manifest(arg)
  /\ UNCHANGED arg
  /\ IdleStep

SpecLanguage == InitLanguage /\ [][ValidateManifest]_vars
SpecCategories == InitCategories /\ [][ValidateManifest]_vars

\* the error kinds of the schema validator
InvalidLanguageSpec ==
  {"Both 'languages' and 'lang_codes' must be provided together",
   "'languages' and 'lang_codes' must be arrays",
   "'languages' and 'lang_codes' must have the same length",
   "'lang_codes' cannot be empty",
   "Invalid BCP47 language code"}
DisallowedCategory == "cannot contain files of this category"

\* 2-3 lowercase letters, optionally '-' and 2 uppercase letters, optionally
\* '-' and a lowercase subtag
DocumentedLangCode(code) ==
  LET parts == Split(code, "-")
      primary == Len(parts[1]) \in {2, 3} /\ AllLower(parts[1])
      region(x) == Len(x) = 2 /\ AllUpper(x)
      subtag(x) == Len(x) >= 1 /\ AllLower(x)
  IN /\ primary
     /\ \/ Len(parts) = 1
        \/ Len(parts) = 2 /\ (region(parts[2]) \/ subtag(parts[2]))
        \/ Len(parts) = 3 /\ region(parts[2]) /\ subtag(parts[3])

LanguageRule(m) ==
  /\ "languages" \in m.fields
  /\ "lang_codes" \in m.fields
  /\ m.languages.islist
  /\ m.lang_codes.islist
  /\ Len(m.languages.items) = Len(m.lang_codes.items)
  /\ Len(m.lang_codes.items) >= 1
  /\ \A i \in 1..Len(m.lang_codes.items) : DocumentedLangCode(m.lang_codes.items[i])

WellFormedSoFar(m) ==
  /\ RequiredSet \subseteq m.fields
  /\ m.type \in {"theme", "mapping", "localization", "bundle"}
  /\ m.files.isdict

HasLanguageField(m) == "languages" \in m.fields \/ "lang_codes" \in m.fields

\* C7: for a manifest of any type with its required fields, a valid type
\* and a files object, when languages or lang_codes is present the validator
\* accepts only if the language rule holds, and a violation of the rule is
\* rejected with InvalidLanguageSpec.
C7_LanguageRuleEveryType ==
  (phase = "out" /\ WellFormedSoFar(arg) /\ HasLanguageField(arg)) =>
    /\ ret.ok => LanguageRule(arg)
    /\ ~LanguageRule(arg)
         => (~ret.ok /\ ret.error \in InvalidLanguageSpec)

\* the categories each type may declare
DocumentedAllowed(ty) ==
  CASE ty = "theme" -> {"themes"}
    [] ty = "mapping" -> {"mappings"}
    [] ty = "localization" -> {"resources"}
    [] ty = "bundle" -> {"mappings", "resources", "themes"}

PassesUpToLanguage(m) == WellFormedSoFar(m) /\ check_language(m).ok

\* C9 as stated: a files object with any category key outside the type's
\* allowed set is rejected with DisallowedCategory, whatever list the
\* category maps to.
C9_AnyForeignCategoryRejected ==
  (phase = "out" /\ PassesUpToLanguage(arg)
     /\ \E i \in 1..Len(arg.files.keys) :
          arg.files.keys[i] \notin DocumentedAllowed(arg.type)) =>
    (~ret.ok /\ ret.error = DisallowedCategory)

\* C9 as amended: a files object with a category outside the type's allowed
\* set that maps to a non-empty list is rejected with DisallowedCategory.
C9_NonEmptyForeignCategoryRejected ==
  (phase = "out" /\ PassesUpToLanguage(arg)
     /\ \E i \in 1..Len(arg.files.keys) :
          /\ arg.files.keys[i] \notin DocumentedAllowed(arg.type)
          /\ arg.files.vals[i] # <<>>) =>
    (~ret.ok /\ ret.error = DisallowedCategory)

C9_Witness ==
  /\ phase = "out"
  /\ arg.type = "mapping"
  /\ PassesUpToLanguage(arg)
  /\ arg.files.keys = <<"themes", "mappings">>
  /\ arg.files.vals = <<<<S_kjv_json>>, <<S_kjv_json>>>>
  /\ ~ret.ok
  /\ ret.error = DisallowedCategory
  /\ ret.detail = "themes"

(***************************************************************************)
(* validate_json_file and validate_extension_files                         *)
(*                                                                         *)
(* The archive is a function from the names of its entries to their        *)
(* contents.  A content is [readable, json_ok, json, lines]: whether the   *)
(* entry can be read, whether json.load parses it, the parsed value, and   *)
(* the decoded text split into lines.                                      *)
(***************************************************************************)
S_mapping_json == <<"_", "m", "a", "p", "p", "i", "n", "g", ".", "j", "s", "o", "n">>
S_json == <<".", "j", "s", "o", "n">>
S_properties == <<".", "p", "r", "o", "p", "e", "r", "t", "i", "e", "s">>
S_messages == <<"m", "e", "s", "s", "a", "g", "e", "s">>
S_gui == <<"g", "u", "i">>

\* re.match(r'.*_mapping\.json$', name): '.' matches no line feed
MatchMappingName(name) ==
  \E k \in 0..Len(name) :
    /\ \A i \in 1..k : name[i] # NL
    /\ StartsWith(SubSeq(name, k + 1, Len(name)), S_mapping_json)
    /\ AtDollar(SubSeq(name, k + Len(S_mapping_json) + 1, Len(name)))

\* re.match(r'(messages|gui)_[a-z]{2}(_[A-Z]{2})?\.properties$', name)
MatchResourceName(name) ==
  \E pre \in {S_messages, S_gui} :
    /\ StartsWith(name, pre)
    /\ LET r == SubSeq(name, Len(pre) + 1, Len(name))
       IN /\ Len(r) >= 3
          /\ r[1] = "_"
          /\ AllLower(SubSeq(r, 2, 3))
          /\ \E c \in {0, 3} :
               /\ Len(r) >= 3 + c
               /\ c = 3 => r[4] = "_" /\ AllUpper(SubSeq(r, 5, 6))
               /\ StartsWith(SubSeq(r, 4 + c, Len(r)), S_properties)
               /\ AtDollar(SubSeq(r, 4 + c + Len(S_properties), Len(r)))

VOk == [ok |-> TRUE, error |-> ""]
VFail(e) == [ok |-> FALSE, error |-> e]

\* validator_func(data), the validator being passed by its name
apply_validator(validator_func, data) ==
  CASE validator_func = "validate_mapping_file" -> validate_mapping_file(data)
    [] validator_func = "validate_theme_file" -> validate_theme_file(data)

\* try: json.load, then the validator; a parse error and any other
\* exception become a failure
validate_json_file(content, validator_func) ==
  IF ~content.readable THEN VFail("Error reading")
  ELSE IF ~content.json_ok THEN VFail("Invalid JSON")
  ELSE apply_validator(validator_func, content.json)

Err(kind, category, file) == [kind |-> kind, category |-> category, file |-> file]

\* What the loop body does for one declared file: the error it appends, if
\* any, whether it tested the name against the archive's entries, and
\* whether it read the entry.
Step(errs, looked, opened) == [errors |-> errs, looked |-> looked, opened |-> opened]

audit_mapping(zip, mapping_file) ==
  IF ~MatchMappingName(mapping_file)
  THEN Step(<<Err("pattern", "mappings", mapping_file)>>, FALSE, FALSE)
  ELSE IF mapping_file \notin DOMAIN zip
  THEN Step(<<Err("notfound", "mappings", mapping_file)>>, TRUE, FALSE)
  ELSE IF validate_json_file(zip[mapping_file], "validate_mapping_file").ok
  THEN Step(<<>>, TRUE, TRUE)
  ELSE Step(<<Err("content", "mappings", mapping_file)>>, TRUE, TRUE)

audit_theme(zip, theme_file) ==
  IF ~EndsWith(theme_file, S_json)
  THEN Step(<<Err("pattern", "themes", theme_file)>>, FALSE, FALSE)
  ELSE IF theme_file \notin DOMAIN zip
  THEN Step(<<Err("notfound", "themes", theme_file)>>, TRUE, FALSE)
  ELSE IF validate_json_file(zip[theme_file], "validate_theme_file").ok
  THEN Step(<<>>, TRUE, TRUE)
  ELSE Step(<<Err("content", "themes", theme_file)>>, TRUE, TRUE)

audit_resource(zip, resource_file) ==
  IF ~MatchResourceName(resource_file)
  THEN Step(<<Err("pattern", "resources", resource_file)>>, FALSE, FALSE)
  ELSE IF resource_file \notin DOMAIN zip
  THEN Step(<<Err("notfound", "resources", resource_file)>>, TRUE, FALSE)
  ELSE IF EndsWith(resource_file, S_properties) THEN
    IF ~zip[resource_file].readable
    THEN Step(<<Err("read", "resources", resource_file)>>, TRUE, TRUE)
    ELSE IF validate_properties_file(zip[resource_file].lines).ok
    THEN Step(<<>>, TRUE, TRUE)
    ELSE Step(<<Err("content", "resources", resource_file)>>, TRUE, TRUE)
  ELSE Step(<<>>, TRUE, FALSE)

\* files.get(category, [])
FilesGet(files, category) ==
  IF \E i \in 1..Len(files.keys) : files.keys[i] = category
  THEN files.vals[CHOOSE i \in 1..Len(files.keys) : files.keys[i] = category]
  ELSE <<>>

RECURSIVE Flatten(_)
Flatten(ss) == IF ss = <<>> THEN <<>> ELSE Head(ss) \o Flatten(Tail(ss))

\* the three loops, file by file: the steps taken for each category
audit_steps(zip, manifest) ==
  LET m == FilesGet(manifest.files, "mappings")
      t == FilesGet(manifest.files, "themes")
      r == FilesGet(manifest.files, "resources")
  IN [mappings |-> [i \in 1..Len(m) |-> audit_mapping(zip, m[i])],
      themes |-> [i \in 1..Len(t) |-> audit_theme(zip, t[i])],
      resources |-> [i \in 1..Len(r) |-> audit_resource(zip, r[i])]]

\* the errors list returned
validate_extension_files(zip, manifest) ==
  LET s == audit_steps(zip, manifest)
      errs(steps) == Flatten([i \in 1..Len(steps) |-> steps[i].errors])
  IN errs(s.mappings) \o errs(s.themes) \o errs(s.resources)

(***************************************************************************)
(* The auditor applied to bounded archives                                 *)
(***************************************************************************)
MaxDeclared == 2

F_a_mapping == <<"a", "_", "m", "a", "p", "p", "i", "n", "g", ".", "j", "s", "o", "n">>
F_books == <<"b", "o", "o", "k", "s", ".", "j", "s", "o", "n">>
F_a_mapping_NL == <<"a", "_", "m", "a", "p", "p", "i", "n", "g", ".", "j", "s", "o", "n", NL>>
F_kjv_txt == <<"k", "j", "v", ".", "t", "x", "t">>
F_gui_en == <<"g", "u", "i", "_", "e", "n", ".", "p", "r", "o", "p", "e", "r", "t", "i", "e", "s">>
F_messages_en_US == <<"m", "e", "s", "s", "a", "g", "e", "s", "_", "e", "n", "_", "U", "S", ".", "p", "r", "o", "p", "e", "r", "t", "i", "e", "s">>
F_gui_e == <<"g", "u", "i", "_", "e", ".", "p", "r", "o", "p", "e", "r", "t", "i", "e", "s">>
F_gui_en_NL == <<"g", "u", "i", "_", "e", "n", ".", "p", "r", "o", "p", "e", "r", "t", "i", "e", "s", NL>>
S_verse == <<"v", "e", "r", "s", "e">>
S_hello_world == <<"h", "e", "l", "l", "o", " ", "w", "o", "r", "l", "d">>
S_a_eq_b == <<"a", "=", "b">>
S_comment == <<" ", " ", "#", " ", "n", "o", "t", "e">>

GoodMappingJson == JObj(<<<<"1">>>>, <<JList(<<JStr(S_Genesis), JStr(S_Gen)>>)>>)
BadMappingJson == JObj(<<<<"x">>>>, <<JList(<<JStr(S_Genesis)>>)>>)
GoodStyle == JObj(REQUIRED_STYLE_KEYS, <<JStr(S_Gen), JNum, JNum, JStr(S_Gen)>>)
GoodThemeJson ==
  JObj(REQUIRED_THEME_KEYS,
       <<JStr(S_Gen), JStr(S_Gen), JObj(<<S_verse>>, <<GoodStyle>>), JStr(S_Gen)>>)
BadThemeJson ==
  JObj(REQUIRED_THEME_KEYS,
       <<JStr(S_Gen), JStr(S_Gen),
         JObj(<<S_verse>>, <<JObj(<<K_fontName>>, <<JStr(S_Gen)>>)>>), JStr(S_Gen)>>)

Content(readable, json_ok, json, lines) ==
  [readable |-> readable, json_ok |-> json_ok, json |-> json, lines |-> lines]
Unreadable == Content(FALSE, FALSE, JNum, <<>>)
GoodProperties == Content(TRUE, FALSE, JNum, <<S_comment, <<>>, S_a_eq_b>>)
BadProperties == Content(TRUE, FALSE, JNum, <<S_a_eq_b, S_hello_world>>)

\* the content of an archive entry, by the category it is written for
ContentOf(category, status) ==
  IF status = "unreadable" THEN Unreadable
  ELSE IF category = "mappings" THEN
    (IF status = "good" THEN Content(TRUE, TRUE, GoodMappingJson, <<>>)
     ELSE Content(TRUE, TRUE, BadMappingJson, <<>>))
  ELSE IF category = "themes" THEN
    (IF status = "good" THEN Content(TRUE, TRUE, GoodThemeJson, <<>>)
     ELSE Content(TRUE, TRUE, BadThemeJson, <<>>))
  ELSE (IF status = "good" THEN GoodProperties ELSE BadProperties)

DeclarableNames ==
  [mappings |-> {F_a_mapping, F_books, F_a_mapping_NL},
   themes |-> {S_kjv_json, F_kjv_txt},
   resources |-> {F_gui_en, F_messages_en_US, F_gui_e, F_gui_en_NL}]
Categories == {"mappings", "themes", "resources"}

\* a declared file with what the archive holds under its name
Declarations ==
  {d \in [category : Categories,
          file : UNION {DeclarableNames[c] : c \in Categories},
          status : {"absent", "good", "bad", "unreadable"}] :
     d.file \in DeclarableNames[d.category]}

\* declarations in manifest order; one name has one content
DeclarationLists ==
  {ds \in SeqsUpTo(Declarations, MaxDeclared) :
     \A i, j \in 1..Len(ds) : ds[i].file = ds[j].file => ds[i].status = ds[j].status}

RECURSIVE FilesOfCategory(_, _)
FilesOfCategory(ds, category) ==
  IF ds = <<>> THEN <<>>
  ELSE (IF Head(ds).category = category THEN <<Head(ds).file>> ELSE <<>>)
       \o FilesOfCategory(Tail(ds), category)

AuditInput(ds) ==
  LET present == {i \in 1..Len(ds) : ds[i].status # "absent"}
  IN [manifest |->
        [type |-> "bundle",
         files |-> [isdict |-> TRUE,
                    keys |-> <<"mappings", "themes", "resources">>,
                    vals |-> <<FilesOfCategory(ds, "mappings"),
                               FilesOfCategory(ds, "themes"),
                               FilesOfCategory(ds, "resources")>>]],
      zip |-> [n \in {ds[i].file : i \in present} |->
                 LET i == CHOOSE i \in present : ds[i].file = n
                 IN ContentOf(ds[i].category, ds[i].status)]]

InitAudit ==
  /\ Idle
  /\ phase = "in"
  /\ arg \in {AuditInput(ds) : ds \in DeclarationLists}
  /\ ret = [errors |-> <<>>, steps |-> [mappings |-> <<>>, themes |-> <<>>, resources |-> <<>>]]

Audit ==
  /\ phase = "in"
  /\ phase' = "out"
  /\ ret' = [errors |-> validate_extension_files(arg.zip, arg.manifest),
             steps |-> audit_steps(arg.zip, arg.manifest)]
  /\ UNCHANGED arg
  /\ IdleStep

SpecAudit == InitAudit /\ [][Audit]_vars

\* the filename patterns as documented
DocumentedName(category, file) ==
  CASE category = "mappings" -> EndsWith(file, S_mapping_json)
    [] category = "themes" -> EndsWith(file, S_json)
    [] category = "resources" ->
         /\ EndsWith(file, S_properties)
         /\ LET stem == SubSeq(file, 1, Len(file) - Len(S_properties))
            IN \E pre \in {S_messages, S_gui} :
                 /\ StartsWith(stem, pre)
                 /\ LET tl == SubSeq(stem, Len(pre) + 1, Len(stem))
                    IN /\ Len(tl) \in {3, 6}
                       /\ tl[1] = "_"
                       /\ AllLower(SubSeq(tl, 2, 3))
                       /\ Len(tl) = 6 => tl[4] = "_" /\ AllUpper(SubSeq(tl, 5, 6))

\* the content validator of a category, on what the archive holds
ContentValid(category, content) ==
  CASE category = "mappings" -> validate_json_file(content, "validate_mapping_file").ok
    [] category = "themes" -> validate_json_file(content, "validate_theme_file").ok
    [] category = "resources" ->
         content.readable /\ validate_properties_file(content.lines).ok

\* a declared entry that fails its pattern, is absent, or fails its validator
EntryFails(zip, category, file) ==
  \/ ~DocumentedName(category, file)
  \/ file \notin DOMAIN zip
  \/ ~ContentValid(category, zip[file])

Count(seq, P(_)) == Cardinality({i \in 1..Len(seq) : P(seq[i])})

\* C5: the errors returned hold exactly one error for each declared entry
\* that fails its filename pattern, is absent from the archive or fails its
\* content validator, and none for an entry that passes all three.
C5_OneErrorPerFailingEntry ==
  phase = "out" =>
    \A c \in Categories :
      LET declared == FilesGet(arg.manifest.files, c)
      IN \A f \in {declared[i] : i \in 1..Len(declared)} :
           LET isEntry(x) == x = f
               isError(e) == e.category = c /\ e.file = f
           IN Count(ret.errors, isError) =
                (IF EntryFails(arg.zip, c, f) THEN Count(declared, isEntry) ELSE 0)

\* C6: for a declared entry whose name does not match its category's
\* pattern, the auditor records a pattern error and neither looks the name
\* up in the archive nor reads the file, and every entry gets its step.
C6_PatternMismatchSkipsChecks ==
  phase = "out" =>
    \A c \in Categories :
      LET declared == FilesGet(arg.manifest.files, c)
      IN /\ Len(ret.steps[c]) = Len(declared)
         /\ \A i \in 1..Len(declared) :
              ~DocumentedName(c, declared[i]) =>
                /\ ret.steps[c][i].errors = <<Err("pattern", c, declared[i])>>
                /\ ~ret.steps[c][i].looked
                /\ ~ret.steps[c][i].opened

(***************************************************************************)
(* The registry, the artifact store and publish                            *)
(***************************************************************************)
S_zip == <<".", "z", "i", "p">>
S_extensions_dir == <<"e", "x", "t", "e", "n", "s", "i", "o", "n", "s", "/">>
S_url_base == <<"h", "t", "t", "p", "s", ":", "/", "/", "g", "i", "t", "h", "u", "b", ".", "c", "o", "m", "/", "m", "y", "b", "i", "b", "l", "e", "-", "c", "l", "i", "/", "m", "y", "b", "i", "b", "l", "e", "-", "c", "l", "i", "-", "e", "x", "t", "e", "n", "s", "i", "o", "n", "s", "/", "r", "a", "w", "/", "m", "a", "i", "n", "/">>
S_commit_prefix == <<"A", "d", "d", " ", "e", "x", "t", "e", "n", "s", "i", "o", "n", ":", " ">>
S_y == <<"y">>
S_n == <<"n">>

\* hashlib.sha256 of the file's bytes: an injective tag of the bytes
calculate_sha256(bytes) == <<"sha256", bytes>>

\* os.path.getsize
get_file_size(bytes) == Len(bytes)

\* Path(url).name: the text after the last '/'
PathName(path) == SubSeq(path, RFind(path, "/", Len(path)) + 1, Len(path))

\* the first entry with the name, as a sequence of at most one entry
find_existing_version(reg, name) ==
  IF \E i \in 1..Len(reg.extensions) : reg.extensions[i].name = name
  THEN <<reg.extensions[CHOOSE i \in 1..Len(reg.extensions) :
            /\ reg.extensions[i].name = name
            /\ \A h \in 1..(i - 1) : reg.extensions[h].name # name]>>
  ELSE <<>>

\* [ext for ext in extensions if ext['name'] != name]
RECURSIVE WithoutName(_, _)
WithoutName(exts, name) ==
  IF exts = <<>> THEN <<>>
  ELSE (IF Head(exts).name # name THEN <<Head(exts)>> ELSE <<>>)
       \o WithoutName(Tail(exts), name)

\* list.sort(key=lambda x: x['name']): a stable sort by name
RECURSIVE InsertByName(_, _)
InsertByName(sorted, e) ==
  IF sorted = <<>> THEN <<e>>
  ELSE IF StrLess(e.name, Head(sorted).name) THEN <<e>> \o sorted
  ELSE <<Head(sorted)>> \o InsertByName(Tail(sorted), e)
RECURSIVE SortByName(_)
SortByName(exts) ==
  IF exts = <<>> THEN <<>>
  ELSE InsertByName(SortByName(SubSeq(exts, 1, Len(exts) - 1)), exts[Len(exts)])

\* The mutant: the entries are not sorted again after the append.
update_registry_no_sort(reg, extension_data, now) ==
  [exists |-> TRUE,
   version |-> IF reg.exists THEN reg.version ELSE "1.0",
   last_updated |-> now,
   extensions |->
     Append(WithoutName(IF reg.exists THEN reg.extensions ELSE <<>>,
                        extension_data.name), extension_data)]

\* The mutant: the entry of the same name is not dropped before the append.
update_registry_no_remove(reg, extension_data, now) ==
  [exists |-> TRUE,
   version |-> IF reg.exists THEN reg.version ELSE "1.0",
   last_updated |-> now,
   extensions |->
     SortByName(Append(IF reg.exists THEN reg.extensions ELSE <<>>, extension_data))]

\* update_registry: load or initialise, drop the name, append, stamp, sort,
\* write.  now is the clock as the function reads it.
update_registry(reg, extension_data, now) ==
  [exists |-> TRUE,
   version |-> IF reg.exists THEN reg.version ELSE "1.0",
   last_updated |-> now,
   extensions |->
     SortByName(Append(WithoutName(IF reg.exists THEN reg.extensions ELSE <<>>,
                                   extension_data.name), extension_data))]

\* commit_message of create_commit_scripts
commit_message(manifest) ==
  S_commit_prefix \o manifest.name \o <<" ", "v">> \o manifest.version

\* ext_filename and dest_path
ext_filename(manifest) == manifest.name \o <<"-">> \o manifest.version \o S_zip
dest_path(manifest) == S_extensions_dir \o ext_filename(manifest)

\* the optional language fields: a sequence of at most one value
OptionalField(manifest, field) ==
  IF field \in manifest.fields THEN <<manifest[field]>> ELSE <<>>

\* extension_data as publish builds it
extension_data_of(manifest, size, checksum, now) ==
  [name |-> manifest.name,
   version |-> manifest.version,
   type |-> manifest.type,
   description |-> manifest.description,
   author |-> manifest.author,
   files |-> manifest.files,
   download_url |-> S_url_base \o dest_path(manifest),
   size |-> size,
   sha256 |-> checksum,
   published_date |-> now,
   languages |-> OptionalField(manifest, "languages"),
   lang_codes |-> OptionalField(manifest, "lang_codes")]

\* The mutant: only an explicit 'n' cancels at "Continue anyway? (y/N)".
continue_declined_only_n(response) == Lower(response) = S_n

\* response.lower() != 'y' at "Continue anyway? (y/N)"
continue_declined(response) == Lower(response) # S_y

\* response.lower() != 'n' at "Remove old version? (Y/n)"
remove_accepted(response) == Lower(response) # S_n

\* response.lower() != 'y' at "Overwrite? (y/N)"
overwrite_declined(response) == Lower(response) # S_y

\* the store without a file
RemoveFile(st, name) == [n \in (DOMAIN st) \ {name} |-> st[n]]
\* the store with a file copied in
CopyFile(st, name, bytes) ==
  [n \in (DOMAIN st) \cup {name} |-> IF n = name THEN bytes ELSE st[n]]

(***************************************************************************)
(* The archives a publish attempt may be given, by path                    *)
(***************************************************************************)
N_a == <<"a">>
N_b == <<"b">>
N_B == <<"B">>
N_ab == <<"a", "b">>
S_1_2_0 == <<"1", ".", "2", ".", "0">>
S_1_10_0 == <<"1", ".", "1", "0", ".", "0">>
S_desc == <<"d">>
S_author == <<"x">>

ThemeFiles == [isdict |-> TRUE, keys |-> <<"themes">>, vals |-> <<<<S_kjv_json>>>>]
ThemeZip == [n \in {S_kjv_json} |-> Content(TRUE, TRUE, GoodThemeJson, <<>>)]
MappingFiles == [isdict |-> TRUE, keys |-> <<"mappings">>, vals |-> <<<<F_a_mapping>>>>]
MappingZip == [n \in {F_a_mapping} |-> Content(TRUE, TRUE, GoodMappingJson, <<>>)]

PublishManifest(name, ver, ty, files, fields) ==
  [fields |-> fields, name |-> name, version |-> ver, type |-> ty,
   description |-> S_desc, author |-> S_author, files |-> files,
   languages |-> IF "languages" \in fields THEN AList(<<S_English>>) ELSE NotAList,
   lang_codes |-> IF "lang_codes" \in fields THEN AList(<<S_en>>) ELSE NotAList]

Archive(exists, manifest_state, manifest, zip, bytes) ==
  [exists |-> exists, manifest_state |-> manifest_state, manifest |-> manifest,
   zip |-> zip, bytes |-> bytes]

ThemeArchive(name, ver, bytes) ==
  Archive(TRUE, "ok", PublishManifest(name, ver, "theme", ThemeFiles, RequiredSet),
          ThemeZip, bytes)

\* Paths 1 to 3 hold valid archives: the theme a in versions 1.2.0 and
\* 1.10.0 and the mapping b.  Path 4 does not exist, 5 has no manifest.json,
\* 6 has an invalid manifest, 7 lacks its declared file.
Archives ==
  <<ThemeArchive(N_a, S_1_2_0, <<1>>),
    ThemeArchive(N_a, S_1_10_0, <<1, 1>>),
    Archive(TRUE, "ok",
            PublishManifest(N_b, S_1_2_0, "mapping", MappingFiles,
                            RequiredSet \cup {"languages", "lang_codes"}),
            MappingZip, <<3>>),
    Archive(FALSE, "absent", BaseManifest, <<>>, <<>>),
    Archive(TRUE, "absent", BaseManifest, <<>>, <<4>>),
    Archive(TRUE, "ok", PublishManifest(N_b, S_1_2_0, "theme", MappingFiles, RequiredSet),
            ThemeZip, <<5>>),
    Archive(TRUE, "ok", PublishManifest(N_b, S_1_10_0, "theme", ThemeFiles, RequiredSet),
            <<>>, <<6>>)>>
Paths == 1..Len(Archives)

(***************************************************************************)
(* publish                                                                 *)
(***************************************************************************)
\* The checks of publish that read the archive only: the path exists, the
\* manifest is extracted, the manifest and the declared files are valid.
archive_accepted(a) ==
  /\ a.exists
  /\ a.manifest_state = "ok"
  /\ validate_manifest(a.manifest).ok
  /\ validate_extension_files(a.zip, a.manifest) = <<>>

\* archive_accepted of each path, computed once
AcceptedAt == [zip_path \in Paths |-> archive_accepted(Archives[zip_path])]

\* compare_versions of each pair of the versions that archives and registry
\* entries carry, computed once
VersionTexts == {S_1_2_0, S_1_10_0}
ComparedAt == [v1 \in VersionTexts, v2 \in VersionTexts |-> compare_versions(v1, v2)]

\* The registry lookup of publish: the existing entry of the name, if
\* registry.json exists and holds one, how the incoming version compares
\* with it, and the notice that is printed about it.
lookup(reg, manifest) ==
  LET found == IF reg.exists THEN find_existing_version(reg, manifest.name) ELSE <<>>
      comparison == IF found # <<>>
                    THEN ComparedAt[manifest.version, found[1].version] ELSE 1
  IN [found |-> found,
      stale |-> found # <<>> /\ comparison <= 0,
      supersede |-> found # <<>> /\ comparison > 0,
      notice |-> IF found = <<>> THEN "none"
                 ELSE IF comparison = 0 THEN "same"
                 ELSE IF comparison < 0 THEN "older" ELSE "updating",
      old_filename |-> IF found # <<>> /\ comparison > 0
                       THEN PathName(found[1].download_url) ELSE <<>>]

\* the store after the "Remove old version" prompt
after_remove(st, lk, response) ==
  IF lk.supersede /\ remove_accepted(response) /\ lk.old_filename \in DOMAIN st
  THEN RemoveFile(st, lk.old_filename) ELSE st

Outcome(result, reg, st, scr, notice, asked) ==
  [result |-> result, registry |-> reg, store |-> st, scripts |-> scr,
   notice |-> notice, asked |-> asked]

\* publish(zip_path): ans holds the answers the prompts get, now and now2
\* are the clock as read for published_date and then for last_updated.
\* notice is the message printed about the existing entry, asked is the set
\* of prompts that were shown.
publish(reg, st, scr, zip_path, ans, now, now2) ==
  IF ~AcceptedAt[zip_path] THEN Outcome(FALSE, reg, st, scr, "none", {})
  ELSE
    LET a == Archives[zip_path]
        manifest == a.manifest
        checksum == calculate_sha256(a.bytes)
        size == get_file_size(a.bytes)
        lk == lookup(reg, manifest)
        st1 == after_remove(st, lk, ans.rem)
        asked1 == IF lk.stale THEN {"continue"}
                  ELSE IF lk.supersede THEN {"remove"} ELSE {}
        dest == ext_filename(manifest)
    IN IF lk.stale /\ continue_declined(ans.cont)
       THEN Outcome(FALSE, reg, st, scr, lk.notice, asked1)
       ELSE IF dest \in DOMAIN st1 /\ overwrite_declined(ans.over)
       THEN Outcome(FALSE, reg, st1, scr, lk.notice, asked1 \cup {"overwrite"})
       ELSE Outcome(TRUE,
                    update_registry(reg, extension_data_of(manifest, size, checksum, now), now2),
                    CopyFile(st1, dest, a.bytes),
                    commit_message(manifest),
                    lk.notice,
                    IF dest \in DOMAIN st1 THEN asked1 \cup {"overwrite"} ELSE asked1)

(***************************************************************************)
(* The publish state machine                                               *)
(***************************************************************************)
MaxClock == 2

\* what may be typed at a prompt; the empty answer is the default
Answers == {S_y, <<"Y">>, S_n, <<>>}

\* The answers a run of publish consumes: a prompt that is not shown gets
\* the empty answer.
AnswerChoices(reg, st, zip_path) ==
  IF ~AcceptedAt[zip_path] THEN {[cont |-> <<>>, rem |-> <<>>, over |-> <<>>]}
  ELSE
    LET manifest == Archives[zip_path].manifest
        lk == lookup(reg, manifest)
        conts == IF lk.stale THEN Answers ELSE {<<>>}
        rems == IF lk.supersede THEN Answers ELSE {<<>>}
        overs(c, r) ==
          IF ~(lk.stale /\ continue_declined(c))
             /\ ext_filename(manifest) \in DOMAIN after_remove(st, lk, r)
          THEN Answers ELSE {<<>>}
    IN UNION {{[cont |-> c, rem |-> r, over |-> o] : o \in overs(c, r)} :
              <<c, r>> \in conts \X rems}

Init ==
  /\ registry = NoRegistry
  /\ store = NoStore
  /\ clock = 0
  /\ scripts = <<>>
  /\ last = NoAttempt
  /\ arg = 0
  /\ ret = 0
  /\ phase = "run"

\* the clock at a later reading: it has not advanced, or it has
Later(now) == {now, IF now < MaxClock THEN now + 1 ELSE now}

\* One run of publish.py on a path, with the answers typed at its prompts;
\* the clock may advance between its two readings.
Publish ==
  \E zip_path \in Paths :
    \E ans \in AnswerChoices(registry, store, zip_path) :
      \E now2 \in Later(clock) :
        \E out \in {publish(registry, store, scripts, zip_path, ans, clock, now2)} :
           /\ registry' = out.registry
           /\ store' = out.store
           /\ scripts' = out.scripts
           /\ clock' = IF out.result THEN now2 ELSE clock
           /\ last' = [archive |-> zip_path, notice |-> out.notice,
                       asked |-> out.asked, result |-> out.result]
           /\ UNCHANGED <<arg, ret, phase>>

\* time passes
Tick ==
  /\ clock < MaxClock
  /\ clock' = clock + 1
  /\ UNCHANGED <<registry, store, scripts, last, arg, ret, phase>>

Next == Publish \/ Tick

Spec == Init /\ [][Next]_vars

\* an entry as an earlier run left it in registry.json
OtherEntry(name) ==
  extension_data_of(PublishManifest(name, S_1_2_0, "theme", ThemeFiles, RequiredSet),
                    1, calculate_sha256(<<7>>), 0)

\* registries found at the start: none, or one with unique, sorted names
InitialRegistries ==
  {NoRegistry,
   [exists |-> TRUE, version |-> "1.0", last_updated |-> 0, extensions |-> <<>>],
   [exists |-> TRUE, version |-> "1.0", last_updated |-> 0,
    extensions |-> <<OtherEntry(N_B), OtherEntry(N_ab)>>]}

InitExisting ==
  /\ registry \in InitialRegistries
  /\ store = NoStore
  /\ clock = 0
  /\ scripts = <<>>
  /\ last = NoAttempt
  /\ arg = 0
  /\ ret = 0
  /\ phase = "run"

SpecExisting == InitExisting /\ [][Next]_vars

(***************************************************************************)
(* Properties of publish and of the registry                               *)
(***************************************************************************)
\* the integer triple a version text X.Y.Z stands for
VersionTriple == [v \in VersionTexts |-> CHOOSE t \in Triples : VersionText(t) = v]

\* version v is lower than or equal to version w
LowerOrEqual(v, w) == TripleOrder(VersionTriple[v], VersionTriple[w]) <= 0

\* the positions of the entries with the name
Named(reg, name) == {i \in 1..Len(reg.extensions) : reg.extensions[i].name = name}

\* the path holds a valid archive, and the registry holds an entry with its
\* name whose version the incoming version is lower than or equal to
StaleOrDuplicate(reg, zip_path) ==
  /\ AcceptedAt[zip_path]
  /\ reg.exists
  /\ \E i \in Named(reg, Archives[zip_path].manifest.name) :
       LowerOrEqual(Archives[zip_path].manifest.version, reg.extensions[i].version)

\* a run of publish on the path with the answers fails and leaves the
\* registry as it was
CancelledUnchanged(zip_path, ans) ==
  \A now2 \in Later(clock) :
    LET out == publish(registry, store, scripts, zip_path, ans, clock, now2)
    IN /\ ~out.result
       /\ out.registry = registry

\* C1 as stated: on a stale or duplicate attempt, every answer to "Continue
\* anyway?" other than 'y' (the empty default included) makes publish return
\* failure with the registry snapshot unchanged.
C1_AnyAnswerButLowerYCancels ==
  \A zip_path \in Paths :
    \A ans \in AnswerChoices(registry, store, zip_path) :
      (StaleOrDuplicate(registry, zip_path) /\ ans.cont # S_y)
        => CancelledUnchanged(zip_path, ans)

\* C1 amended: on a stale or duplicate attempt, every answer to "Continue
\* anyway?" other than 'y' and 'Y' (the empty default included) makes publish
\* return failure with the registry snapshot, its entry sequence and its
\* last_updated, unchanged.
C1_AnyAnswerButYCancels ==
  \A zip_path \in Paths :
    \A ans \in AnswerChoices(registry, store, zip_path) :
      (StaleOrDuplicate(registry, zip_path) /\ ans.cont \notin {S_y, <<"Y">>})
        => CancelledUnchanged(zip_path, ans)

\* a stale attempt (a 1.2.0 against the entry a 1.10.0) was cancelled at
\* "Continue anyway?" and the registry still holds the entry a 1.10.0
C1_Witness ==
  /\ last.archive = 1
  /\ last.notice = "older"
  /\ last.asked = {"continue"}
  /\ ~last.result
  /\ registry.exists
  /\ \E i \in Named(registry, N_a) : registry.extensions[i].version = S_1_10_0

\* C2: the registry's entry sequence is in strictly ascending order of name,
\* so it is sorted by name and holds at most one entry per name.
C2_SortedUniqueByName ==
  registry.exists =>
    /\ \A i \in 1..(Len(registry.extensions) - 1) :
         StrLess(registry.extensions[i].name, registry.extensions[i + 1].name)
    /\ \A i, j \in 1..Len(registry.extensions) :
         registry.extensions[i].name = registry.extensions[j].name => i = j

\* the entry a was published into a registry that held B and ab, and was
\* sorted between them
C2_Witness ==
  /\ last.result
  /\ registry.exists
  /\ Len(registry.extensions) = 3
  /\ registry.extensions[1].name = N_B
  /\ registry.extensions[2].name = N_a
  /\ registry.extensions[3].name = N_ab

\* the entry is what a publish of the path's archive at some time produces
EntryOf(zip_path, e) ==
  LET a == Archives[zip_path]
  IN e = extension_data_of(a.manifest, get_file_size(a.bytes),
                           calculate_sha256(a.bytes), e.published_date)

\* every confirmation is answered with override-accept
AllAccepted(ans) ==
  /\ ans.cont \in {S_y, <<"Y">>}
  /\ ans.over \in {S_y, <<"Y">>}

\* C3: when the registry holds the entry a publish of an archive produced,
\* publishing the same archive again with override-accept at every
\* confirmation succeeds and yields a registry with exactly one entry for the
\* name, equal to the earlier entry in every field but published_date; the
\* other entries and the order are as before.
C3_RepublishIsIdempotent ==
  \A zip_path \in Paths :
    \A ans \in AnswerChoices(registry, store, zip_path) :
      (/\ AcceptedAt[zip_path]
       /\ registry.exists
       /\ \E i \in Named(registry, Archives[zip_path].manifest.name) :
            EntryOf(zip_path, registry.extensions[i])
       /\ AllAccepted(ans))
        => \A now2 \in Later(clock) :
           LET out == publish(registry, store, scripts, zip_path, ans, clock, now2)
               old == registry.extensions
               new == out.registry.extensions
               name == Archives[zip_path].manifest.name
           IN /\ out.result
              /\ Cardinality(Named(out.registry, name)) = 1
              /\ Len(new) = Len(old)
              /\ \A i \in 1..Len(old) :
                   IF old[i].name = name
                   THEN /\ new[i] = [old[i] EXCEPT !.published_date = clock]
                        /\ EntryOf(zip_path, new[i])
                   ELSE new[i] = old[i]

\* the archive a 1.2.0 was published again over its own entry, at a later
\* time, with "Continue anyway?" and "Overwrite?" both accepted
C3_Witness ==
  /\ last.archive = 1
  /\ last.notice = "same"
  /\ last.asked = {"continue", "overwrite"}
  /\ last.result
  /\ clock > 0
  /\ Len(registry.extensions) = 2
  /\ \E i \in Named(registry, N_a) :
       /\ EntryOf(1, registry.extensions[i])
       /\ registry.extensions[i].published_date > 0

\* {name}-{version}.zip of a registry entry
ArtifactOf(e) == e.name \o <<"-">> \o e.version \o S_zip

\* C10: every entry of the registry has its artifact {name}-{version}.zip in
\* the artifact store.
C10_EveryEntryHasItsArtifact ==
  registry.exists =>
    \A i \in 1..Len(registry.extensions) :
      ArtifactOf(registry.extensions[i]) \in DOMAIN store
====
